---- MODULE Spec2Model ----
(***************************************************************************)
(* JSON SQL Workspace: the mock backend (src/server.ts) and the state of   *)
(* the single-page UI (src/src/App.tsx): the tables held in React state,   *)
(* the cell editor, the visual query builder and the Execute Query handler *)
(* that registers the tables in the embedded SQL engine (alasql).          *)
(*                                                                         *)
(* JavaScript values are records with a kind tag; a JavaScript string is   *)
(* the sequence of its characters, so that Number(), String() and          *)
(* toLowerCase() are computed and not assumed.  An object is the sequence  *)
(* of its properties in insertion order.  Identifiers (table and column    *)
(* names) and SQL text are TLA+ strings.                                   *)
(***************************************************************************)
EXTENDS Integers, Sequences, FiniteSets, TLC

VARIABLES
  mockData,           \* server.ts: the object of tables held by the server
  req,                \* server.ts: the last request of a direct HTTP client
  res,                \* server.ts: the response sent to it
  tables,             \* App.tsx: useState<TableState[]>
  loading,            \* App.tsx: useState(true)
  pending,            \* App.tsx: the asynchronous work in flight
  activeTab,          \* App.tsx: 'tables' | 'query'
  selectedTableName,  \* App.tsx: string | null
  query,              \* App.tsx: the query text
  queryResult,        \* App.tsx: any[] | null
  queryError,         \* App.tsx: string | null
  vbBaseTable,        \* App.tsx: visual builder, primary table
  vbJoins,            \* App.tsx: visual builder, join list
  vbFilters,          \* App.tsx: visual builder, filter list
  alasqlTables,       \* alasql.tables: the tables registered in the SQL engine
  toast,              \* react-hot-toast: the last notification shown
  crashed,            \* React: the tree was unmounted by an error thrown in render
  changes             \* the changes made to the tables since they were loaded (bounds the model)

vars == << mockData, req, res, tables, loading, pending, activeTab, selectedTableName,
           query, queryResult, queryError, vbBaseTable, vbJoins, vbFilters,
           alasqlTables, toast, crashed, changes >>

(***************************************************************************)
(* JavaScript values                                                       *)
(***************************************************************************)
Num(n) == [k |-> "number", n |-> n, s |-> << >>, b |-> FALSE]
Str(s) == [k |-> "string", n |-> 0, s |-> s, b |-> FALSE]
Bool(b) == [k |-> "boolean", n |-> 0, s |-> << >>, b |-> b]
Undefined == [k |-> "undefined", n |-> 0, s |-> << >>, b |-> FALSE]
Null == [k |-> "null", n |-> 0, s |-> << >>, b |-> FALSE]
NaN == [k |-> "NaN", n |-> 0, s |-> << >>, b |-> FALSE]

Some(v) == [null |-> FALSE, v |-> v]

Prop(key, val) == [key |-> key, val |-> val]

Keys(obj) == [i \in 1..Len(obj) |-> obj[i].key]

HasKey(obj, key) == \E i \in 1..Len(obj) : obj[i].key = key

\* obj[key]
Get(obj, key) ==
  IF HasKey(obj, key)
  THEN obj[CHOOSE i \in 1..Len(obj) : obj[i].key = key].val
  ELSE Undefined

\* { ...obj, [key]: val }
SpreadSet(obj, key, val) ==
  IF HasKey(obj, key)
  THEN [i \in 1..Len(obj) |-> IF obj[i].key = key THEN Prop(key, val) ELSE obj[i]]
  ELSE Append(obj, Prop(key, val))

Digits == << "0", "1", "2", "3", "4", "5", "6", "7", "8", "9" >>
UpperCase == << "A", "B", "C", "D", "E", "F", "G", "H", "I", "J", "K", "L", "M",
                "N", "O", "P", "Q", "R", "S", "T", "U", "V", "W", "X", "Y", "Z" >>
LowerCase == << "a", "b", "c", "d", "e", "f", "g", "h", "i", "j", "k", "l", "m",
                "n", "o", "p", "q", "r", "s", "t", "u", "v", "w", "x", "y", "z" >>

IndexIn(seq, c) == CHOOSE i \in 1..Len(seq) : seq[i] = c

IsDigit(c) == \E i \in 1..Len(Digits) : Digits[i] = c

DigitValue(c) == IndexIn(Digits, c) - 1

RECURSIVE DecimalValue(_)
DecimalValue(s) ==
  IF s = << >> THEN 0
  ELSE 10 * DecimalValue(SubSeq(s, 1, Len(s) - 1)) + DigitValue(s[Len(s)])

RECURSIVE Trim(_)
Trim(s) ==
  IF s = << >> THEN s
  ELSE IF s[1] = " " THEN Trim(Tail(s))
  ELSE IF s[Len(s)] = " " THEN Trim(SubSeq(s, 1, Len(s) - 1))
  ELSE s

\* Number(val).  Of the numeric literals of a string only the unsigned decimal
\* integers, with white space around them, occur in the model's data and
\* inputs; every other string of the model is no numeric literal and gives NaN.
Number(val) ==
  CASE val.k = "number" -> val
    [] val.k = "NaN" -> NaN
    [] val.k = "boolean" -> Num(IF val.b THEN 1 ELSE 0)
    [] val.k = "null" -> Num(0)
    [] val.k = "undefined" -> NaN
    [] val.k = "string" ->
         LET t == Trim(val.s) IN
         IF \A i \in 1..Len(t) : IsDigit(t[i]) THEN Num(DecimalValue(t)) ELSE NaN

isNaN(val) == Number(val).k = "NaN"

RECURSIVE DecimalChars(_)
DecimalChars(n) ==
  IF n < 10 THEN << Digits[n + 1] >>
  ELSE Append(DecimalChars(n \div 10), Digits[(n % 10) + 1])

\* String(val), for the non-negative integers the model holds
String(val) ==
  CASE val.k = "string" -> val.s
    [] val.k = "number" -> DecimalChars(val.n)
    [] val.k = "NaN" -> << "N", "a", "N" >>
    [] val.k = "boolean" -> IF val.b THEN << "t", "r", "u", "e" >>
                                     ELSE << "f", "a", "l", "s", "e" >>
    [] val.k = "null" -> << "n", "u", "l", "l" >>
    [] val.k = "undefined" -> << "u", "n", "d", "e", "f", "i", "n", "e", "d" >>

toLowerCase(s) ==
  [i \in 1..Len(s) |->
     IF \E j \in 1..Len(UpperCase) : UpperCase[j] = s[i]
     THEN LowerCase[IndexIn(UpperCase, s[i])]
     ELSE s[i]]

\* typeof val
typeof(val) == IF val.k = "NaN" THEN "number" ELSE IF val.k = "null" THEN "object" ELSE val.k

\* The characters of a JavaScript string as text
RECURSIVE Text(_)
Text(s) == IF s = << >> THEN "" ELSE s[1] \o Text(Tail(s))

(***************************************************************************)
(* server.ts: the mock backend                                             *)
(***************************************************************************)
usersRows ==
  <<
    << Prop("id", Num(1)),
       Prop("name", Str(<<"A", "l", "i", "c", "e", " ", "J", "o", "h", "n", "s", "o", "n">>)),
       Prop("email", Str(<<"a", "l", "i", "c", "e", "@", "e", "x", "a", "m", "p", "l", "e", ".", "c", "o", "m">>)),
       Prop("role_id", Num(1)) >>,
    << Prop("id", Num(2)),
       Prop("name", Str(<<"B", "o", "b", " ", "S", "m", "i", "t", "h">>)),
       Prop("email", Str(<<"b", "o", "b", "@", "e", "x", "a", "m", "p", "l", "e", ".", "c", "o", "m">>)),
       Prop("role_id", Num(2)) >>,
    << Prop("id", Num(3)),
       Prop("name", Str(<<"C", "h", "a", "r", "l", "i", "e", " ", "B", "r", "o", "w", "n">>)),
       Prop("email", Str(<<"c", "h", "a", "r", "l", "i", "e", "@", "e", "x", "a", "m", "p", "l", "e", ".", "c", "o", "m">>)),
       Prop("role_id", Num(2)) >>,
    << Prop("id", Num(4)),
       Prop("name", Str(<<"D", "i", "a", "n", "a", " ", "P", "r", "i", "n", "c", "e">>)),
       Prop("email", Str(<<"d", "i", "a", "n", "a", "@", "e", "x", "a", "m", "p", "l", "e", ".", "c", "o", "m">>)),
       Prop("role_id", Num(1)) >>
  >>

rolesRows ==
  <<
    << Prop("id", Num(1)),
       Prop("role_name", Str(<<"A", "d", "m", "i", "n">>)),
       Prop("permissions", Str(<<"a", "l", "l">>)) >>,
    << Prop("id", Num(2)),
       Prop("role_name", Str(<<"U", "s", "e", "r">>)),
       Prop("permissions", Str(<<"r", "e", "a", "d", "-", "o", "n", "l", "y">>)) >>
  >>

ordersRows ==
  <<
    << Prop("id", Num(101)),
       Prop("user_id", Num(1)),
       Prop("product", Str(<<"L", "a", "p", "t", "o", "p">>)),
       Prop("amount", Num(1200)) >>,
    << Prop("id", Num(102)),
       Prop("user_id", Num(2)),
       Prop("product", Str(<<"M", "o", "u", "s", "e">>)),
       Prop("amount", Num(25)) >>,
    << Prop("id", Num(103)),
       Prop("user_id", Num(1)),
       Prop("product", Str(<<"M", "o", "n", "i", "t", "o", "r">>)),
       Prop("amount", Num(300)) >>,
    << Prop("id", Num(104)),
       Prop("user_id", Num(3)),
       Prop("product", Str(<<"K", "e", "y", "b", "o", "a", "r", "d">>)),
       Prop("amount", Num(75)) >>
  >>

\* const mockData: Record<string, any[]>, its properties in their order
MockDataAtStart ==
  << [name |-> "users", rows |-> usersRows],
     [name |-> "roles", rows |-> rolesRows],
     [name |-> "orders", rows |-> ordersRows] >>

\* A listing that stops one property short
ObjectKeysButLast(md) == [i \in 1..(Len(md) - 1) |-> md[i].name]

\* Object.keys(mockData)
ObjectKeys(md) == [i \in 1..Len(md) |-> md[i].name]

HasOwn(md, name) == \E i \in 1..Len(md) : md[i].name = name

\* The properties every plain object inherits from Object.prototype
ObjectPrototypeKeys ==
  { "constructor", "__proto__", "hasOwnProperty", "isPrototypeOf",
    "propertyIsEnumerable", "toLocaleString", "toString", "valueOf",
    "__defineGetter__", "__defineSetter__", "__lookupGetter__", "__lookupSetter__" }

\* mockData[name]: an own property, else a member of Object.prototype, else undefined
Lookup(md, name) ==
  IF HasOwn(md, name)
  THEN [kind |-> "array", rows |-> md[CHOOSE i \in 1..Len(md) : md[i].name = name].rows]
  ELSE IF name \in ObjectPrototypeKeys
  THEN [kind |-> "prototype member", rows |-> << >>]
  ELSE [kind |-> "undefined", rows |-> << >>]

\* Arrays (the empty one too), functions and objects are truthy; undefined is falsy.
Truthy(found) == found.kind # "undefined"

\* JSON.stringify of a cell value, parsed back by the client
JsonValue(val) == IF val.k \in {"NaN", "undefined"} THEN Null ELSE val

\* JSON.stringify of an array of rows, parsed back: undefined properties are dropped
JsonRow(row) ==
  LET kept == SelectSeq(row, LAMBDA p : p.val.k # "undefined")
  IN [i \in 1..Len(kept) |-> Prop(kept[i].key, JsonValue(kept[i].val))]

JsonRows(rows) == [i \in 1..Len(rows) |-> JsonRow(rows[i])]

Response(status, kind, names, rows, error) ==
  [status |-> status, kind |-> kind, names |-> names, rows |-> rows, error |-> error]

NoResponse == Response(0, "none", << >>, << >>, "")

\* A request: the route and, for /api/table/:name, req.params.name
Request(route, name) == [route |-> route, name |-> name]

NoRequest == Request("none", "")

\* app.get("/api/tables")
tablesRoute(md) == Response(200, "names", ObjectKeys(md), << >>, "")

\* app.get("/api/table/:name").  res.json of a member of Object.prototype sends
\* status 200 with no table in the body.
tableRoute(md, name) ==
  LET found == Lookup(md, name) IN
  IF Truthy(found)
  THEN IF found.kind = "array"
       THEN Response(200, "rows", << >>, JsonRows(found.rows), "")
       ELSE Response(200, "prototype member", << >>, << >>, "")
  ELSE Response(404, "error", << >>, << >>, "Table not found")

\* The names a direct client asks for: the tables, an unknown name and two
\* names every object inherits
RequestNames == { "users", "roles", "orders", "nosuch", "constructor", "__proto__" }

\* A handler that consumed the array it served
GetTableConsuming(name) ==
  /\ name \in RequestNames
  /\ req' = Request("/api/table/:name", name)
  /\ res' = tableRoute(mockData, name)
  /\ mockData' = [i \in 1..Len(mockData) |->
                    IF mockData[i].name = name
                    THEN [mockData[i] EXCEPT !.rows = << >>]
                    ELSE mockData[i]]
  /\ UNCHANGED << tables, loading, pending, activeTab, selectedTableName, query,
                  queryResult, queryError, vbBaseTable, vbJoins, vbFilters,
                  alasqlTables, toast, crashed, changes >>

\* GET /api/tables from a direct client
GetTables ==
  /\ req' = Request("/api/tables", "")
  /\ res' = tablesRoute(mockData)
  /\ UNCHANGED << mockData, tables, loading, pending, activeTab, selectedTableName,
                  query, queryResult, queryError, vbBaseTable, vbJoins, vbFilters,
                  alasqlTables, toast, crashed, changes >>

\* GET /api/table/:name from a direct client
GetTable(name) ==
  /\ name \in RequestNames
  /\ req' = Request("/api/table/:name", name)
  /\ res' = tableRoute(mockData, name)
  /\ UNCHANGED << mockData, tables, loading, pending, activeTab, selectedTableName,
                  query, queryResult, queryError, vbBaseTable, vbJoins, vbFilters,
                  alasqlTables, toast, crashed, changes >>

(***************************************************************************)
(* App.tsx: the tables in React state                                      *)
(***************************************************************************)
ColumnTypes == { "string", "number", "boolean" }

Columns(cols) == [def |-> TRUE, cols |-> cols]

\* A TableState built without the columns property (t.columns is undefined)
NoColumns == [def |-> FALSE, cols |-> << >>]

TableState(name, data, columns) == [name |-> name, data |-> data, columns |-> columns]

\* fetchData: infer columns and types from the first row
InferColumns(data) ==
  IF Len(data) > 0
  THEN Columns([i \in 1..Len(data[1]) |->
         [name |-> data[1][i].key,
          type |-> IF typeof(data[1][i].val) = "number" THEN "number"
                   ELSE IF typeof(data[1][i].val) = "boolean" THEN "boolean"
                   ELSE "string"]])
  ELSE Columns(<< >>)

\* fetchData: what Promise.all resolves to when every fetch succeeds
LoadedTables(md) ==
  LET tableNames == tablesRoute(md).names IN
  [i \in 1..Len(tableNames) |->
     LET data == tableRoute(md, tableNames[i]).rows
     IN TableState(tableNames[i], data, InferColumns(data))]

\* Reset to Default: what Promise.all resolves to when every fetch succeeds
ResetTables(md) ==
  LET tableNames == tablesRoute(md).names IN
  [i \in 1..Len(tableNames) |->
     TableState(tableNames[i], tableRoute(md, tableNames[i]).rows, NoColumns)]

\* tables.find(t => t.name === name) is defined
HasTable(ts, name) == \E i \in 1..Len(ts) : ts[i].name = name

\* tables.find(t => t.name === name), when it is defined
FindTable(ts, name) == ts[CHOOSE i \in 1..Len(ts) : ts[i].name = name]

Toast(kind, msg) == [kind |-> kind, msg |-> msg]

(***************************************************************************)
(* App.tsx: the visual builder's query text                                *)
(***************************************************************************)
\* A filter's column is the sequence of the parts of its text: a column name,
\* or a table name, "." and a column name; the empty sequence is ''.
ColumnText(column) == IF column = << >> THEN "" ELSE Text(column)

\* f.column.includes('.')
IncludesDot(column) == \E i \in 1..Len(column) : column[i] = "."

\* vbJoins.forEach(join => { newQuery += ... })
RECURSIVE AppendJoins(_, _, _)
AppendJoins(newQuery, base, joins) ==
  IF joins = << >> THEN newQuery
  ELSE AppendJoins(newQuery \o " JOIN " \o joins[1].table \o " ON " \o base \o "."
                     \o joins[1].leftCol \o " = " \o joins[1].table \o "."
                     \o joins[1].rightCol,
                   base, Tail(joins))

\* vbFilters.map(f => ...): one filter's condition
FilterString(base, f) ==
  LET table == IF IncludesDot(f.column) THEN "" ELSE base \o "."
      value == IF isNaN(Str(f.value)) THEN "'" \o Text(f.value) \o "'" ELSE Text(f.value)
  IN table \o ColumnText(f.column) \o " " \o f.operator \o " " \o value

\* filterStrings.join(sep)
RECURSIVE JoinStrings(_, _)
JoinStrings(strings, sep) ==
  IF strings = << >> THEN ""
  ELSE IF Len(strings) = 1 THEN strings[1]
  ELSE strings[1] \o sep \o JoinStrings(Tail(strings), sep)

\* A builder that writes the WHERE keyword whether or not there is a filter
BuildQueryAlwaysWhere(base, joins, filters) ==
  AppendJoins("SELECT * FROM " \o base, base, joins) \o " WHERE "
    \o JoinStrings([i \in 1..Len(filters) |-> FilterString(base, filters[i])], " AND ")

\* useEffect(..., [vbBaseTable, vbJoins, vbFilters]): the generated query
BuildQuery(base, joins, filters) ==
  LET newQuery == AppendJoins("SELECT * FROM " \o base, base, joins) IN
  IF Len(filters) > 0
  THEN newQuery \o " WHERE "
         \o JoinStrings([i \in 1..Len(filters) |-> FilterString(base, filters[i])], " AND ")
  ELSE newQuery

\* useState<string>: the query text before the first effect runs
InitialQuery == "SELECT * FROM users JOIN roles ON users.role_id = roles.id"

(***************************************************************************)
(* App.tsx: rendering.  tables.find(...)?.columns.map(...) throws when the *)
(* table is found and has no columns property; React then unmounts the     *)
(* tree (the application has no error boundary).  The selects that do this *)
(* are rendered once per join and once per filter, on the query tab.       *)
(***************************************************************************)
ColumnsMapThrows(ts, name) == HasTable(ts, name) /\ ~FindTable(ts, name).columns.def

RenderThrows(ts, isLoading, tab, base, joins, filters) ==
  /\ ~isLoading
  /\ tab = "query"
  /\ \/ /\ joins # << >>
        /\ \/ ColumnsMapThrows(ts, base)
           \/ \E i \in 1..Len(joins) : ColumnsMapThrows(ts, joins[i].table)
     \/ /\ filters # << >>
        /\ \/ ColumnsMapThrows(ts, base)
           \/ \E i \in 1..Len(joins) : ColumnsMapThrows(ts, joins[i].table)

\* The state of the tree is lost with the tree: nothing of it changes any more.
Crash ==
  /\ crashed' = TRUE
  /\ UNCHANGED << mockData, req, res, tables, loading, pending, activeTab,
                  selectedTableName, query, queryResult, queryError, vbBaseTable,
                  vbJoins, vbFilters, alasqlTables, toast, changes >>

\* The user can act: the tree is mounted and the spinner is not shown.
Interactive == ~crashed /\ ~loading /\ pending = "none"

(***************************************************************************)
(* App.tsx: editing the tables.  Row positions count from 1 here (the       *)
(* code's rowIndex + 1).                                                   *)
(***************************************************************************)
\* An editor that overwrites the row with an object holding only the edited cell
updateCellDroppingRow(ts, tableName, rowIndex, key, value) ==
  [i \in 1..Len(ts) |->
     IF ts[i].name = tableName
     THEN [ts[i] EXCEPT !.data = [ts[i].data EXCEPT ![rowIndex] = << Prop(key, value) >>]]
     ELSE ts[i]]

\* updateCell, for the index of an existing row
updateCell(ts, tableName, rowIndex, key, value) ==
  [i \in 1..Len(ts) |->
     IF ts[i].name = tableName
     THEN LET newData == [ts[i].data EXCEPT
                            ![rowIndex] = SpreadSet(ts[i].data[rowIndex], key, value)]
          IN [ts[i] EXCEPT !.data = newData]
     ELSE ts[i]]

\* Object.keys(t.data[0]).reduce((acc, key) => ({ ...acc, [key]: '' }), {})
RECURSIVE BlankRow(_, _)
BlankRow(acc, keys) ==
  IF keys = << >> THEN acc
  ELSE BlankRow(SpreadSet(acc, keys[1], Str(<< >>)), Tail(keys))

\* addRow; now is Date.now()
addRow(ts, tableName, now) ==
  [i \in 1..Len(ts) |->
     IF ts[i].name = tableName
     THEN LET newRow == IF Len(ts[i].data) > 0
                        THEN BlankRow(<< >>, Keys(ts[i].data[1]))
                        ELSE << Prop("id", Num(now)) >>
          IN [ts[i] EXCEPT !.data = Append(ts[i].data, newRow)]
     ELSE ts[i]]

\* updateColumnType, for a table that has columns
updateColumnType(ts, tableName, columnName, newType) ==
  [i \in 1..Len(ts) |->
     IF ts[i].name = tableName
     THEN [ts[i] EXCEPT !.columns.cols =
             [j \in 1..Len(ts[i].columns.cols) |->
                IF ts[i].columns.cols[j].name = columnName
                THEN [ts[i].columns.cols[j] EXCEPT !.type = newType]
                ELSE ts[i].columns.cols[j]]]
     ELSE ts[i]]

(***************************************************************************)
(* App.tsx runQuery: the type cast of the rows handed to the SQL engine    *)
(***************************************************************************)
\* A cast that does not spare the empty string
CastValueOfEmptyToo(val, type) ==
  IF val.k # "undefined" /\ val.k # "null"
  THEN IF type = "number"
       THEN (IF isNaN(val) THEN Num(0) ELSE Number(val))
       ELSE IF type = "boolean"
       THEN Bool(toLowerCase(String(val)) = << "t", "r", "u", "e" >>)
       ELSE val
  ELSE val

\* The body of t.columns.forEach for one column: the value newRow[col.name] ends with
CastValue(val, type) ==
  IF val.k # "undefined" /\ val.k # "null" /\ val # Str(<< >>)
  THEN IF type = "number"
       THEN (IF isNaN(val) THEN Num(0) ELSE Number(val))
       ELSE IF type = "boolean"
       THEN Bool(toLowerCase(String(val)) = << "t", "r", "u", "e" >>)
       ELSE val
  ELSE val

\* t.columns.forEach(col => ...) on newRow = { ...row }
RECURSIVE CastRow(_, _)
CastRow(newRow, cols) ==
  IF cols = << >> THEN newRow
  ELSE LET val == Get(newRow, cols[1].name)
           cast == CastValue(val, cols[1].type)
       IN CastRow(IF cast = val THEN newRow ELSE SpreadSet(newRow, cols[1].name, cast),
                  Tail(cols))

\* t.data.map(row => ...)
CastedData(t) == [i \in 1..Len(t.data) |-> CastRow(t.data[i], t.columns.cols)]

\* t.columns.forEach throws a TypeError when t.columns is undefined; the map
\* calls it once a row, so a table without rows throws nothing.
CastThrows(t) == ~t.columns.def /\ Len(t.data) > 0

TypeErrorMessage == "Cannot read properties of undefined (reading 'forEach')"

\* Rows shared with the engine: newRow = row, so the cast is written into the
\* rows React holds
RowsAfterCastShared(t) == CastedData(t)

\* const newRow = { ...row }: the cast (and whatever the engine does to the rows
\* it is given) is written to copies, so the rows React holds stay as they are.
RowsAfterCast(t) == t.data

(***************************************************************************)
(* alasql, the embedded SQL engine, as far as runQuery uses it.            *)
(* alasqlTables is a function from the names of the engine's tables to     *)
(* their rows.                                                             *)
(***************************************************************************)
DropTable(eng, name) == [n \in (DOMAIN eng) \ {name} |-> eng[n]]

SetTable(eng, name, data) ==
  [n \in (DOMAIN eng) \cup {name} |-> IF n = name THEN data ELSE eng[n]]

\* DROP TABLE IF EXISTS name; CREATE TABLE name; alasql.tables[name].data = castedData
RegisterTable(eng, t) == SetTable(DropTable(eng, t.name), t.name, CastedData(t))

\* tables.forEach(t => ...): the engine's tables when the loop ends or throws
RECURSIVE RegisterTables(_, _)
RegisterTables(eng, ts) ==
  IF ts = << >> THEN [threw |-> FALSE, tables |-> eng]
  ELSE IF CastThrows(ts[1]) THEN [threw |-> TRUE, tables |-> eng]
  ELSE RegisterTables(RegisterTable(eng, ts[1]), Tail(ts))

\* The statements the model gives a meaning to
SqlOps == { "select", "delete", "update", "drop" }

Statement(op, table) == [op |-> op, table |-> table]

SqlText(stmt) ==
  CASE stmt.op = "select" -> "SELECT * FROM " \o stmt.table
    [] stmt.op = "delete" -> "DELETE FROM " \o stmt.table
    [] stmt.op = "update" -> "UPDATE " \o stmt.table \o " SET id = 0"
    [] stmt.op = "drop" -> "DROP TABLE " \o stmt.table

SqlTableNames == { "users", "roles", "orders", "nosuch" }

Statements == { Statement(op, t) : op \in SqlOps, t \in SqlTableNames }

\* The statement a text is, or an unknown one
ParseSql(text) ==
  IF \E stmt \in Statements : SqlText(stmt) = text
  THEN CHOOSE stmt \in Statements : SqlText(stmt) = text
  ELSE Statement("unknown", "")

\* What a call of alasql gives: an exception, or a result and the engine's tables after it
Threw(message, eng) ==
  [threw |-> TRUE, message |-> message, kind |-> "none", rows |-> << >>, n |-> 0,
   tables |-> eng]
ReturnedArray(rows, eng) ==
  [threw |-> FALSE, message |-> "", kind |-> "array", rows |-> rows, n |-> 0,
   tables |-> eng]
ReturnedNumber(n, eng) ==
  [threw |-> FALSE, message |-> "", kind |-> "number", rows |-> << >>, n |-> n,
   tables |-> eng]
ReturnedUndefined(eng) ==
  [threw |-> FALSE, message |-> "", kind |-> "undefined", rows |-> << >>, n |-> 0,
   tables |-> eng]

\* alasql(query): the outcomes the engine may give.  A statement the model gives
\* no meaning to may throw, or return an array, a number or undefined, and
\* leaves the tables as they are.
alasql(text, eng) ==
  LET stmt == ParseSql(text) IN
  IF stmt.op = "unknown"
  THEN { Threw("Parse error", eng), ReturnedArray(<< >>, eng), ReturnedNumber(1, eng),
         ReturnedUndefined(eng) }
  ELSE IF stmt.table \notin DOMAIN eng
  THEN { Threw("Table does not exist: " \o stmt.table, eng) }
  ELSE CASE stmt.op = "select" -> { ReturnedArray(eng[stmt.table], eng) }
         [] stmt.op = "delete" ->
              { ReturnedNumber(Len(eng[stmt.table]), SetTable(eng, stmt.table, << >>)) }
         [] stmt.op = "update" ->
              { ReturnedNumber(Len(eng[stmt.table]),
                  SetTable(eng, stmt.table,
                    [i \in 1..Len(eng[stmt.table]) |->
                       SpreadSet(eng[stmt.table][i], "id", Num(0))])) }
         [] stmt.op = "drop" -> { ReturnedNumber(1, DropTable(eng, stmt.table)) }

\* An element of the result array: a row, or a value that was no array
RowItem(row) == [t |-> "row", row |-> row, val |-> Undefined]
ValueItem(val) == [t |-> "value", row |-> << >>, val |-> val]

\* Array.isArray(result) ? result : [result]
ProcessedResult(out) ==
  IF out.kind = "array"
  THEN [i \in 1..Len(out.rows) |-> RowItem(out.rows[i])]
  ELSE << ValueItem(Num(out.n)) >>

(***************************************************************************)
(* Bounds and input sets of the model                                      *)
(***************************************************************************)
\* Changes (cells edited, rows added, column types changed) made in the Data
\* Explorer since the tables were loaded
MaxChanges == 1
\* The same, before and between executions of queries
MaxQueryChanges == 2
\* The same, beside requests of direct clients of the backend
MaxServerChanges == 1
\* Joins and filters held by the visual builder
MaxClauses == 2

\* Texts typed into a cell: none, a number, upper-case TRUE, a word
EditValues == { << >>, << "1", "2" >>, << "T", "R", "U", "E" >>, << "a", "b" >> }

\* Texts typed into the query box
QueryInputs ==
  { SqlText(Statement("select", "users")), SqlText(Statement("delete", "users")),
    SqlText(Statement("update", "roles")), SqlText(Statement("drop", "orders")),
    SqlText(Statement("select", "nosuch")), "SELEC" }

\* Texts typed into a filter's value
FilterValues == { << >>, << "5" >>, << "a", "b" >> }

\* The options of a filter's operator select
Operators == { "=", ">", "<", "LIKE", "!=" }

\* Date.now(): a positive integer (one that fits the model checker's integers)
Timestamps == { 1762000000 }

NullName == [null |-> TRUE, v |-> ""]
NullResult == [null |-> TRUE, v |-> << >>]
NullError == [null |-> TRUE, v |-> ""]
NoToast == Toast("none", "")

ColumnNames(t) == { t.columns.cols[j].name : j \in 1..Len(t.columns.cols) }

TableNames(ts) == { ts[i].name : i \in 1..Len(ts) }

(***************************************************************************)
(* App.tsx: mounting and loading                                           *)
(***************************************************************************)
Init ==
  /\ mockData = MockDataAtStart
  /\ req = NoRequest
  /\ res = NoResponse
  /\ tables = << >>
  /\ loading = TRUE
  /\ pending = "mount"
  /\ activeTab = "tables"
  /\ selectedTableName = NullName
  /\ query = InitialQuery
  /\ queryResult = NullResult
  /\ queryError = NullError
  /\ vbBaseTable = "users"
  /\ vbJoins = << >>
  /\ vbFilters = << >>
  /\ alasqlTables = << >>
  /\ toast = NoToast
  /\ crashed = FALSE
  /\ changes = 0

\* The effects of the first render: the query is generated, fetchData starts
Mount ==
  /\ pending = "mount"
  /\ query' = BuildQuery(vbBaseTable, vbJoins, vbFilters)
  /\ pending' = "fetchData"
  /\ UNCHANGED << mockData, req, res, tables, loading, activeTab, selectedTableName,
                  queryResult, queryError, vbBaseTable, vbJoins, vbFilters,
                  alasqlTables, toast, crashed, changes >>

\* fetchData: every fetch succeeded
FetchDataSucceeds ==
  /\ pending = "fetchData"
  /\ LET loadedTables == LoadedTables(mockData) IN
     /\ tables' = loadedTables
     /\ selectedTableName' = IF Len(loadedTables) > 0 THEN Some(loadedTables[1].name)
                             ELSE selectedTableName
  /\ loading' = FALSE
  /\ changes' = 0
  /\ pending' = "none"
  /\ UNCHANGED << mockData, req, res, activeTab, query, queryResult, queryError,
                  vbBaseTable, vbJoins, vbFilters, alasqlTables, toast, crashed >>

\* fetchData: a fetch was rejected
FetchDataFails ==
  /\ pending = "fetchData"
  /\ toast' = Toast("error", "Failed to load data from backend")
  /\ loading' = FALSE
  /\ pending' = "none"
  /\ UNCHANGED << mockData, req, res, tables, activeTab, selectedTableName, query,
                  queryResult, queryError, vbBaseTable, vbJoins, vbFilters,
                  alasqlTables, crashed, changes >>

\* The header's Data Explorer and SQL Engine buttons
SetActiveTab(tab) ==
  /\ Interactive
  /\ tab \in { "tables", "query" }
  /\ IF RenderThrows(tables, loading, tab, vbBaseTable, vbJoins, vbFilters)
     THEN Crash
     ELSE /\ activeTab' = tab
          /\ UNCHANGED << mockData, req, res, tables, loading, pending, selectedTableName,
                          query, queryResult, queryError, vbBaseTable, vbJoins,
                          vbFilters, alasqlTables, toast, crashed, changes >>

\* A table's button in the sidebar
SelectTable(name) ==
  /\ Interactive
  /\ name \in TableNames(tables)
  /\ selectedTableName' = Some(name)
  /\ activeTab' = "tables"
  /\ UNCHANGED << mockData, req, res, tables, loading, pending, query, queryResult,
                  queryError, vbBaseTable, vbJoins, vbFilters, alasqlTables, toast,
                  crashed, changes >>

\* Sync Backend
SyncBackend ==
  /\ Interactive
  /\ toast' = Toast("success", "Data synced with backend")
  /\ UNCHANGED << mockData, req, res, tables, loading, pending, activeTab,
                  selectedTableName, query, queryResult, queryError, vbBaseTable,
                  vbJoins, vbFilters, alasqlTables, crashed, changes >>

\* Reset to Default: setLoading(true), the fetches start
ResetClick ==
  /\ Interactive
  /\ loading' = TRUE
  /\ pending' = "reset"
  /\ UNCHANGED << mockData, req, res, tables, activeTab, selectedTableName, query,
                  queryResult, queryError, vbBaseTable, vbJoins, vbFilters,
                  alasqlTables, toast, crashed, changes >>

\* Reset to Default: every fetch succeeded
ResetSucceeds ==
  /\ pending = "reset"
  /\ ~crashed
  /\ IF RenderThrows(ResetTables(mockData), FALSE, activeTab, vbBaseTable, vbJoins,
                     vbFilters)
     THEN Crash
     ELSE /\ tables' = ResetTables(mockData)
          /\ toast' = Toast("success", "Data reset to backend state")
          /\ loading' = FALSE
          /\ changes' = 0
          /\ pending' = "none"
          /\ UNCHANGED << mockData, req, res, activeTab, selectedTableName, query,
                          queryResult, queryError, vbBaseTable, vbJoins, vbFilters,
                          alasqlTables, crashed >>

\* Reset to Default: a fetch was rejected
ResetFails ==
  /\ pending = "reset"
  /\ ~crashed
  /\ toast' = Toast("error", "Failed to reset data")
  /\ loading' = FALSE
  /\ pending' = "none"
  /\ UNCHANGED << mockData, req, res, tables, activeTab, selectedTableName, query,
                  queryResult, queryError, vbBaseTable, vbJoins, vbFilters,
                  alasqlTables, crashed, changes >>

(***************************************************************************)
(* App.tsx: the Data Explorer tab                                          *)
(***************************************************************************)
\* The grid shows the selected table's cells, one input per column definition
GridShown ==
  /\ Interactive
  /\ activeTab = "tables"
  /\ ~selectedTableName.null
  /\ HasTable(tables, selectedTableName.v)
  /\ FindTable(tables, selectedTableName.v).columns.def

\* A cell's input onChange
EditCell(rowIndex, key, value) ==
  /\ GridShown
  /\ rowIndex \in 1..Len(FindTable(tables, selectedTableName.v).data)
  /\ key \in ColumnNames(FindTable(tables, selectedTableName.v))
  /\ value \in EditValues
  /\ tables' = updateCell(tables, selectedTableName.v, rowIndex, key, Str(value))
  /\ changes' = changes + 1
  /\ UNCHANGED << mockData, req, res, loading, pending, activeTab, selectedTableName,
                  query, queryResult, queryError, vbBaseTable, vbJoins, vbFilters,
                  alasqlTables, toast, crashed >>

\* The Add Row button: addRow(selectedTableName!)
AddRow(now) ==
  /\ Interactive
  /\ activeTab = "tables"
  /\ now \in Timestamps
  /\ tables' = IF selectedTableName.null THEN tables
               ELSE addRow(tables, selectedTableName.v, now)
  /\ changes' = changes + 1
  /\ toast' = Toast("success", "Row added")
  /\ UNCHANGED << mockData, req, res, loading, pending, activeTab, selectedTableName,
                  query, queryResult, queryError, vbBaseTable, vbJoins, vbFilters,
                  alasqlTables, crashed >>

\* A column's type select onChange
ChangeColumnType(columnName, newType) ==
  /\ GridShown
  /\ newType \in ColumnTypes
  /\ \E j \in 1..Len(FindTable(tables, selectedTableName.v).columns.cols) :
       LET col == FindTable(tables, selectedTableName.v).columns.cols[j] IN
       col.name = columnName /\ col.type # newType
  /\ tables' = updateColumnType(tables, selectedTableName.v, columnName, newType)
  /\ changes' = changes + 1
  /\ toast' = Toast("success", "Column " \o columnName \o " type updated to " \o newType)
  /\ UNCHANGED << mockData, req, res, loading, pending, activeTab, selectedTableName,
                  query, queryResult, queryError, vbBaseTable, vbJoins, vbFilters,
                  alasqlTables, crashed >>

\* Filter Table
FilterTable ==
  /\ Interactive
  /\ IF RenderThrows(tables, loading, "query", vbBaseTable, vbJoins, vbFilters)
     THEN Crash
     ELSE /\ query' = "SELECT * FROM "
                        \o (IF selectedTableName.null THEN "users" ELSE selectedTableName.v)
                        \o " WHERE id > 1"
          /\ activeTab' = "query"
          /\ UNCHANGED << mockData, req, res, tables, loading, pending, selectedTableName,
                          queryResult, queryError, vbBaseTable, vbJoins, vbFilters,
                          alasqlTables, toast, crashed, changes >>

(***************************************************************************)
(* App.tsx: the SQL Engine tab                                             *)
(***************************************************************************)
QueryTabShown == Interactive /\ activeTab = "query"

\* The query box's onChange
SetQuery(text) ==
  /\ QueryTabShown
  /\ text \in QueryInputs
  /\ text # query
  /\ query' = text
  /\ UNCHANGED << mockData, req, res, tables, loading, pending, activeTab,
                  selectedTableName, queryResult, queryError, vbBaseTable, vbJoins,
                  vbFilters, alasqlTables, toast, crashed, changes >>

\* The Visual Builder button: a template query
LoadTemplate ==
  /\ QueryTabShown
  /\ query' = "SELECT * FROM " \o (IF Len(tables) > 0 THEN tables[1].name ELSE "users")
  /\ toast' = Toast("success", "Template loaded")
  /\ UNCHANGED << mockData, req, res, tables, loading, pending, activeTab,
                  selectedTableName, queryResult, queryError, vbBaseTable, vbJoins,
                  vbFilters, alasqlTables, crashed, changes >>

\* An execution that leaves the error of an earlier execution in place
ErrorOnSuccessKept(previous) == previous

\* setQueryError(null), the handler's first statement: the error an execution
\* that throws nothing ends with, whatever the error was
ErrorOnSuccess(previous) == NullError

\* runQuery, the Execute Query button
runQuery ==
  /\ QueryTabShown
  /\ tables' = [i \in 1..Len(tables) |->
                  IF CastThrows(tables[i]) THEN tables[i]
                  ELSE [tables[i] EXCEPT !.data = RowsAfterCast(tables[i])]]
  /\ LET registered == RegisterTables(alasqlTables, tables) IN
     IF registered.threw
     THEN /\ alasqlTables' = registered.tables
          /\ queryError' = Some(TypeErrorMessage)
          /\ queryResult' = NullResult
          /\ toast' = Toast("error", "SQL Error: " \o TypeErrorMessage)
     ELSE \E result \in alasql(query, registered.tables) :
            /\ alasqlTables' = result.tables
            /\ IF result.threw
               THEN /\ queryError' = Some(result.message)
                    /\ queryResult' = NullResult
                    /\ toast' = Toast("error", "SQL Error: " \o result.message)
               ELSE /\ queryError' = ErrorOnSuccess(queryError)
                    /\ IF result.kind = "undefined"
                       THEN /\ queryResult' = Some(<< >>)
                            /\ toast' = Toast("error", "Query returned no result")
                       ELSE /\ queryResult' = Some(ProcessedResult(result))
                            /\ toast' =
                                 IF Len(ProcessedResult(result)) = 0
                                 THEN Toast("error", "No rows matched the query")
                                 ELSE Toast("success",
                                        "Query executed: "
                                          \o ToString(Len(ProcessedResult(result)))
                                          \o " rows found")
  /\ UNCHANGED << mockData, req, res, loading, pending, activeTab, selectedTableName,
                  query, vbBaseTable, vbJoins, vbFilters, crashed, changes >>

(***************************************************************************)
(* App.tsx: the visual builder.  Each handler sets builder state; the      *)
(* render that follows may throw; the effect that depends on the builder   *)
(* state runs after the render and sets the query.                         *)
(***************************************************************************)
Clauses == Len(vbJoins) + Len(vbFilters)

BuilderUpdate(base, joins, filters) ==
  IF RenderThrows(tables, loading, activeTab, base, joins, filters)
  THEN Crash
  ELSE /\ vbBaseTable' = base
       /\ vbJoins' = joins
       /\ vbFilters' = filters
       /\ query' = BuildQuery(base, joins, filters)
       /\ UNCHANGED << mockData, req, res, tables, loading, pending, activeTab,
                       selectedTableName, queryResult, queryError, alasqlTables,
                       toast, crashed, changes >>

\* The Primary Table select
ChangeBaseTable(name) ==
  /\ QueryTabShown
  /\ name \in TableNames(tables)
  /\ name # vbBaseTable
  /\ BuilderUpdate(name, << >>, << >>)

\* tables.find(t => t.name !== vbBaseTable)?.name || ''
FirstOtherTable(ts, base) ==
  IF \E i \in 1..Len(ts) : ts[i].name # base
  THEN ts[CHOOSE i \in 1..Len(ts) :
            ts[i].name # base /\ \A j \in 1..(i - 1) : ts[j].name = base].name
  ELSE ""

\* + Add Join
AddJoin ==
  /\ QueryTabShown
  /\ Clauses < MaxClauses
  /\ BuilderUpdate(vbBaseTable,
       Append(vbJoins, [table |-> FirstOtherTable(tables, vbBaseTable),
                        leftCol |-> "id", rightCol |-> "id"]),
       vbFilters)

\* A join's remove button: vbJoins.filter((_, i) => i !== idx)
RemoveJoin(idx) ==
  /\ QueryTabShown
  /\ idx \in 1..Len(vbJoins)
  /\ BuilderUpdate(vbBaseTable,
       SubSeq(vbJoins, 1, idx - 1) \o SubSeq(vbJoins, idx + 1, Len(vbJoins)),
       vbFilters)

\* A join's table select
SetJoinTable(idx, name) ==
  /\ QueryTabShown
  /\ idx \in 1..Len(vbJoins)
  /\ name \in TableNames(tables)
  /\ name # vbJoins[idx].table
  /\ BuilderUpdate(vbBaseTable, [vbJoins EXCEPT ![idx].table = name], vbFilters)

\* The options of a select over a table's columns
ColumnOptions(ts, name) ==
  IF HasTable(ts, name) /\ FindTable(ts, name).columns.def
  THEN ColumnNames(FindTable(ts, name))
  ELSE {}

\* A join's left column select
SetJoinLeftCol(idx, col) ==
  /\ QueryTabShown
  /\ idx \in 1..Len(vbJoins)
  /\ col \in ColumnOptions(tables, vbBaseTable)
  /\ col # vbJoins[idx].leftCol
  /\ BuilderUpdate(vbBaseTable, [vbJoins EXCEPT ![idx].leftCol = col], vbFilters)

\* A join's right column select
SetJoinRightCol(idx, col) ==
  /\ QueryTabShown
  /\ idx \in 1..Len(vbJoins)
  /\ col \in ColumnOptions(tables, vbJoins[idx].table)
  /\ col # vbJoins[idx].rightCol
  /\ BuilderUpdate(vbBaseTable, [vbJoins EXCEPT ![idx].rightCol = col], vbFilters)

\* + Add Filter: tables.find(...)?.columns[0].name || '' throws when the table is
\* found and has no first column; the handler then ends without setting state.
AddFilter ==
  /\ QueryTabShown
  /\ Clauses < MaxClauses
  /\ ~ (HasTable(tables, vbBaseTable)
        /\ (~FindTable(tables, vbBaseTable).columns.def
            \/ FindTable(tables, vbBaseTable).columns.cols = << >>))
  /\ BuilderUpdate(vbBaseTable, vbJoins,
       Append(vbFilters,
         [column |-> IF HasTable(tables, vbBaseTable)
                     THEN << FindTable(tables, vbBaseTable).columns.cols[1].name >>
                     ELSE << >>,
          operator |-> "=", value |-> << >>]))

\* A filter's remove button
RemoveFilter(idx) ==
  /\ QueryTabShown
  /\ idx \in 1..Len(vbFilters)
  /\ BuilderUpdate(vbBaseTable, vbJoins,
       SubSeq(vbFilters, 1, idx - 1) \o SubSeq(vbFilters, idx + 1, Len(vbFilters)))

\* The options of a filter's column select: the primary table's columns, then
\* table.column for the columns of every joined table
FilterColumnOptions ==
  { << c >> : c \in ColumnOptions(tables, vbBaseTable) }
    \cup UNION { { << vbJoins[j].table, ".", c >> :
                     c \in ColumnOptions(tables, vbJoins[j].table) }
                 : j \in 1..Len(vbJoins) }

\* A filter's column select
SetFilterColumn(idx, column) ==
  /\ QueryTabShown
  /\ idx \in 1..Len(vbFilters)
  /\ column \in FilterColumnOptions
  /\ column # vbFilters[idx].column
  /\ BuilderUpdate(vbBaseTable, vbJoins, [vbFilters EXCEPT ![idx].column = column])

\* A filter's operator select
SetFilterOperator(idx, operator) ==
  /\ QueryTabShown
  /\ idx \in 1..Len(vbFilters)
  /\ operator \in Operators
  /\ operator # vbFilters[idx].operator
  /\ BuilderUpdate(vbBaseTable, vbJoins, [vbFilters EXCEPT ![idx].operator = operator])

\* A filter's value input
SetFilterValue(idx, value) ==
  /\ QueryTabShown
  /\ idx \in 1..Len(vbFilters)
  /\ value \in FilterValues
  /\ value # vbFilters[idx].value
  /\ BuilderUpdate(vbBaseTable, vbJoins, [vbFilters EXCEPT ![idx].value = value])

(***************************************************************************)
(* Specifications                                                          *)
(***************************************************************************)
AllColumnNames ==
  UNION { { MockDataAtStart[i].rows[1][c].key : c \in 1..Len(MockDataAtStart[i].rows[1]) }
          : i \in 1..Len(MockDataAtStart) }

AllTableNames == { MockDataAtStart[i].name : i \in 1..Len(MockDataAtStart) }

\* The values typed into the grid's cells, and those typed into a cell whose
\* column is then retyped (an added row has the empty strings)
GridValues == { << >>, << "1", "2" >> }

TypedValues == EditValues \ { << >> }

\* The columns, filter columns and operators the builder's selects are set to
JoinColumns == { "id", "user_id" }

FilterColumns == { << "amount" >>, << "users", ".", "name" >> }

FilterOperators == { "=", ">" }

\* The positions of the rows a table can have within the bounds
RowIndexes == 1..(Len(usersRows) + MaxChanges)

Mounting ==
  \/ Mount
  \/ FetchDataSucceeds
  \/ FetchDataFails

Resetting ==
  \/ ResetClick
  \/ ResetSucceeds
  \/ ResetFails

\* The Data Explorer: every table, every cell, every column type
Next ==
  \/ Mounting
  \/ \E name \in AllTableNames : SelectTable(name)
  \/ Resetting
  \/ /\ changes < MaxChanges
     /\ \/ \E rowIndex \in RowIndexes, key \in AllColumnNames, value \in GridValues :
             EditCell(rowIndex, key, value)
        \/ \E now \in Timestamps : AddRow(now)
        \/ \E newType \in ColumnTypes : ChangeColumnType("id", newType)

Spec == Init /\ [][Next]_vars

\* The execution of queries on the tables as loaded, with the name of the first
\* user edited and retyped, users extended, and the tables reset
NextQuery ==
  \/ Mounting
  \/ \E tab \in { "tables", "query" } : SetActiveTab(tab)
  \/ Resetting
  \/ /\ changes < MaxQueryChanges
     /\ \/ \E value \in TypedValues : EditCell(1, "name", value)
        \/ \E now \in Timestamps : AddRow(now)
        \/ \E newType \in ColumnTypes : ChangeColumnType("name", newType)
  \/ \E text \in QueryInputs : SetQuery(text)
  \/ runQuery

SpecQuery == Init /\ [][NextQuery]_vars

\* The backend with its direct clients, beside one of every operation of the UI
NextServer ==
  \/ GetTables
  \/ \E name \in RequestNames : GetTable(name)
  \/ Mounting
  \/ \E tab \in { "tables", "query" } : SetActiveTab(tab)
  \/ SyncBackend
  \/ Resetting
  \/ /\ changes < MaxServerChanges
     /\ \/ EditCell(1, "id", << >>)
        \/ \E now \in Timestamps : AddRow(now)
        \/ ChangeColumnType("id", "string")
  \/ runQuery

SpecServer == Init /\ [][NextServer]_vars

\* The visual builder, with loading, Reset to Default and the tabs
NextBuilder ==
  \/ Mounting
  \/ \E tab \in { "tables", "query" } : SetActiveTab(tab)
  \/ Resetting
  \/ \E name \in AllTableNames : ChangeBaseTable(name)
  \/ AddJoin
  \/ \E idx \in 1..MaxClauses : RemoveJoin(idx)
  \/ \E idx \in 1..MaxClauses, name \in AllTableNames : SetJoinTable(idx, name)
  \/ \E idx \in 1..MaxClauses, col \in JoinColumns : SetJoinLeftCol(idx, col)
  \/ \E idx \in 1..MaxClauses, col \in JoinColumns : SetJoinRightCol(idx, col)
  \/ AddFilter
  \/ \E idx \in 1..MaxClauses : RemoveFilter(idx)
  \/ \E idx \in 1..MaxClauses, column \in FilterColumns : SetFilterColumn(idx, column)
  \/ \E idx \in 1..MaxClauses, operator \in FilterOperators : SetFilterOperator(idx, operator)
  \/ \E idx \in 1..MaxClauses, value \in FilterValues : SetFilterValue(idx, value)
  \/ SetQuery("SELEC")
  \/ FilterTable
  \/ LoadTemplate

SpecBuilder == Init /\ [][NextBuilder]_vars

(***************************************************************************)
(* The backend's tables and routes                                         *)
(***************************************************************************)
Range(seq) == { seq[i] : i \in 1..Len(seq) }

ListedTables == req.route = "/api/tables"

\* C1, as claimed: the backend holds exactly four tables, and GET /api/tables
\* returns a list of exactly four table names.
C1_FourTables == ListedTables => Len(res.names) = 4

\* C1, amended: the backend holds exactly three tables, users, roles and orders,
\* and GET /api/tables returns exactly these three names.
C1_ThreeTables ==
  /\ Len(mockData) = 3
  /\ ListedTables =>
       /\ res.status = 200
       /\ Len(res.names) = 3
       /\ Cardinality(Range(res.names)) = 3
       /\ res.names = << "users", "roles", "orders" >>

C1_Witness == ListedTables /\ res.kind = "names"

\* C2: whatever requests were served and whatever the UI did (cell edit, Add Row,
\* column type change, Execute Query, Sync Backend, Reset to Default), the backend
\* lists the table names and returns the rows of every table as at server start.
C2_BackendFixed ==
  /\ tablesRoute(mockData) = tablesRoute(MockDataAtStart)
  /\ \A name \in RequestNames :
       tableRoute(mockData, name) = tableRoute(MockDataAtStart, name)

\* A table was served to a direct client after a query was executed, the tables
\* were reset, a row was added to the reset tables and Sync Backend was clicked.
C2_Witness ==
  /\ req = Request("/api/table/:name", "users")
  /\ ~queryResult.null
  /\ Len(tables) > 0
  /\ ~tables[1].columns.def
  /\ changes = 1
  /\ toast.msg = "Data synced with backend"

\* C3, as claimed: GET /api/table/:name answers 200 with the table's rows if and
\* only if the name is one of the names GET /api/tables returns, and answers 404
\* with the error "Table not found" for every other name.
C3_NotFoundUnlessListed ==
  req.route = "/api/table/:name" =>
    IF req.name \in Range(tablesRoute(mockData).names)
    THEN /\ res.status = 200
         /\ res.kind = "rows"
         /\ res.rows = JsonRows(Lookup(mockData, req.name).rows)
    ELSE /\ res.status = 404
         /\ res.kind = "error"
         /\ res.error = "Table not found"

(***************************************************************************)
(* Editing and resetting the tables                                        *)
(***************************************************************************)
\* Between before and after, exactly the cell (rowIndex, key) of the table was
\* set to value: the same tables, rows and keys in the same order, every other
\* cell and the column definitions as they were.
OnlyThatCell(before, after, tableName, rowIndex, key, value) ==
  /\ Len(after) = Len(before)
  /\ \A i \in 1..Len(before) :
       /\ after[i].name = before[i].name
       /\ after[i].columns = before[i].columns
       /\ Len(after[i].data) = Len(before[i].data)
       /\ \A r \in 1..Len(before[i].data) :
            /\ Keys(after[i].data[r]) = Keys(before[i].data[r])
            /\ \A c \in 1..Len(before[i].data[r]) :
                 after[i].data[r][c].val =
                   IF before[i].name = tableName /\ r = rowIndex
                      /\ before[i].data[r][c].key = key
                   THEN value
                   ELSE before[i].data[r][c].val

\* C6: editing a cell of an existing row in place sets exactly that cell of that
\* table to the value; the number and order of the rows, every other cell, every
\* other table and all column definitions are unchanged.
C6_EditSetsOneCell ==
  [][\A rowIndex \in RowIndexes, key \in AllColumnNames, value \in GridValues :
       EditCell(rowIndex, key, value) =>
         OnlyThatCell(tables, tables', selectedTableName.v, rowIndex, key, Str(value))]_vars

\* The role name of the second role was edited to the text 12.
C6_Witness ==
  /\ Len(tables) = 3
  /\ changes = 1
  /\ Get(tables[2].data[2], "role_name") = Str(<< "1", "2" >>)
  /\ tables[2].data[1] = rolesRows[1]

\* C7, as claimed: after a successful Reset to Default the tables are in the state
\* of a fresh initial load: the backend's rows, and the column definitions
\* inferred from each table's first row.
C7_ResetRestoresLoad ==
  [][(ResetSucceeds /\ ~crashed') => tables' = LoadedTables(mockData)]_vars

(***************************************************************************)
(* Execute Query                                                           *)
(***************************************************************************)

\* C5, as claimed: every Execute Query runs against the current in-memory data.
\* Each UI table is registered afresh, with the rows the UI table has at that
\* moment in their order, so that SELECT * FROM a UI table gives one row per row
\* of the UI table, in order, whatever earlier queries did inside the engine.
C5_RunsOnCurrentData ==
  [][runQuery =>
       \A i \in 1..Len(tables) :
         /\ ParseSql(query).op \notin { "delete", "update", "drop" } =>
              /\ tables[i].name \in DOMAIN alasqlTables'
              /\ Len(alasqlTables'[tables[i].name]) = Len(tables[i].data)
              /\ \A r \in 1..Len(tables[i].data) :
                   Keys(alasqlTables'[tables[i].name][r]) = Keys(tables[i].data[r])
         /\ query = SqlText(Statement("select", tables[i].name)) =>
              /\ ~queryResult'.null
              /\ Len(queryResult'.v) = Len(tables[i].data)
              /\ \A r \in 1..Len(tables[i].data) :
                   /\ queryResult'.v[r].t = "row"
                   /\ Keys(queryResult'.v[r].row) = Keys(tables[i].data[r])]_vars

\* The result's array, as the claim has it: an array as it is, a value that is no
\* array as the one element of an array, undefined or null as the empty array
ResultArray(result) ==
  CASE result.kind = "array" -> [i \in 1..Len(result.rows) |-> RowItem(result.rows[i])]
    [] result.kind = "number" -> << ValueItem(Num(result.n)) >>
    [] result.kind = "undefined" -> << >>

\* C8: the query error and the query result are never both present.  After an
\* Execute Query that fails the error holds the message and the result is null;
\* after one that succeeds the error is null and the result is an array.
C8_ErrorOrResult ==
  /\ [](queryError.null \/ queryResult.null)
  /\ [][runQuery =>
          LET registered == RegisterTables(alasqlTables, tables) IN
          IF registered.threw
          THEN queryError' = Some(TypeErrorMessage) /\ queryResult'.null
          ELSE \E result \in alasql(query, registered.tables) :
                 /\ alasqlTables' = result.tables
                 /\ IF result.threw
                    THEN queryError' = Some(result.message) /\ queryResult'.null
                    ELSE queryError'.null /\ queryResult' = Some(ResultArray(result))]_vars

\* An execution succeeded with a value that is no array after one had failed.
C8_Witness ==
  /\ queryError.null
  /\ ~queryResult.null
  /\ queryResult.v = << ValueItem(Num(1)) >>
  /\ query = "SELEC"

\* C9: Execute Query never changes the UI's tables, whatever the query text and
\* whether the execution succeeds or fails.
C9_TablesUntouched == [][runQuery => tables' = tables]_vars

\* DELETE FROM users emptied the engine's users table and reported the five rows
\* deleted, and the UI's users table has its five rows.
C9_Witness ==
  /\ query = SqlText(Statement("delete", "users"))
  /\ queryResult = Some(<< ValueItem(Num(5)) >>)
  /\ "users" \in DOMAIN alasqlTables
  /\ alasqlTables["users"] = << >>
  /\ Len(tables[1].data) = 5

\* The value a cell is given to the engine as, as the claim has it
ClaimedCast(val, type) ==
  IF val.k \in { "undefined", "null" } \/ val = Str(<< >>) THEN val
  ELSE IF type = "number"
  THEN (IF Number(val).k = "number" THEN Number(val) ELSE Num(0))
  ELSE IF type = "boolean"
  THEN (IF toLowerCase(String(val)) = << "t", "r", "u", "e" >> THEN Bool(TRUE) ELSE Bool(FALSE))
  ELSE val

TypeOfColumn(t, key) ==
  (CHOOSE col \in Range(t.columns.cols) : col.name = key).type

\* C10: the rows given to the SQL engine are type-cast per column definition.
\* (The rows given are read in the engine's tables after a statement that does
\* not change them.)
C10_RowsCast ==
  [][(runQuery /\ ParseSql(query).op \notin { "delete", "update", "drop" }) =>
       \A i \in 1..Len(tables) :
         tables[i].columns.def =>
           /\ tables[i].name \in DOMAIN alasqlTables'
           /\ Len(alasqlTables'[tables[i].name]) = Len(tables[i].data)
           /\ \A r \in 1..Len(tables[i].data) :
                /\ Keys(alasqlTables'[tables[i].name][r]) = Keys(tables[i].data[r])
                /\ \A c \in 1..Len(tables[i].data[r]) :
                     alasqlTables'[tables[i].name][r][c].val =
                       ClaimedCast(tables[i].data[r][c].val,
                                   TypeOfColumn(tables[i], tables[i].data[r][c].key))]_vars

\* The first user's name, edited to TRUE in a column retyped boolean, was given
\* to the engine as true beside the numbers of the number columns.
C10_Witness ==
  /\ Len(tables) = 3
  /\ Get(tables[1].data[1], "name") = Str(<< "T", "R", "U", "E" >>)
  /\ "users" \in DOMAIN alasqlTables
  /\ Len(alasqlTables["users"]) = 4
  /\ Get(alasqlTables["users"][1], "name") = Bool(TRUE)
  /\ Get(alasqlTables["users"][2], "name") = Bool(FALSE)
  /\ Get(alasqlTables["users"][1], "id") = Num(1)

(***************************************************************************)
(* Visual Builder                                                          *)
(***************************************************************************)
\* ' JOIN <t> ON <primary>.<leftCol> = <t>.<rightCol>' per join, in list order
RECURSIVE JoinClauses(_, _, _)
JoinClauses(primary, joins, n) ==
  IF n = 0 THEN ""
  ELSE JoinClauses(primary, joins, n - 1) \o " JOIN " \o joins[n].table \o " ON "
         \o primary \o "." \o joins[n].leftCol \o " = "
         \o joins[n].table \o "." \o joins[n].rightCol

\* One condition per filter, in list order, joined by ' AND '
RECURSIVE Conditions(_, _, _)
Conditions(primary, filters, n) ==
  IF n = 1 THEN FilterString(primary, filters[1])
  ELSE Conditions(primary, filters, n - 1) \o " AND " \o FilterString(primary, filters[n])

AssembledQuery(primary, joins, filters) ==
  "SELECT * FROM " \o primary \o JoinClauses(primary, joins, Len(joins))
    \o (IF Len(filters) >= 1 THEN " WHERE " \o Conditions(primary, filters, Len(filters))
        ELSE "")

\* C4: whenever the visual builder state (primary table, join list, filter list)
\* changes, the query text becomes exactly the string assembled from that state:
\* the SELECT, one JOIN per join in list order, and a WHERE with the conditions
\* joined by AND if and only if there is at least one filter.
C4_QueryAssembled ==
  [][<< vbBaseTable, vbJoins, vbFilters >>' # << vbBaseTable, vbJoins, vbFilters >>
       => query' = AssembledQuery(vbBaseTable', vbJoins', vbFilters')]_vars

\* The builder holds a join and a filter, and the query text has both.
C4_Witness ==
  /\ vbBaseTable = "orders"
  /\ Len(vbJoins) = 1
  /\ Len(vbFilters) = 1
  /\ query = "SELECT * FROM orders JOIN users ON orders.user_id = users.id WHERE orders.amount > 5"

(***************************************************************************)
(* Add Row                                                                 *)
(***************************************************************************)
\* The row the claim has appended to a table: every key of the table's first row
\* set to the empty string, or only an id when the table had no rows
ClaimedNewRow(t, row) ==
  IF Len(t.data) > 0
  THEN /\ Keys(row) = Keys(t.data[1])
       /\ \A c \in 1..Len(row) : row[c].val = Str(<< >>)
  ELSE Keys(row) = << "id" >>

\* Exactly one row was appended at the end of table i, and nothing else changed
AppendedOneRow(before, after, i) ==
  /\ Len(after) = Len(before)
  /\ Len(after[i].data) = Len(before[i].data) + 1
  /\ SubSeq(after[i].data, 1, Len(before[i].data)) = before[i].data
  /\ ClaimedNewRow(before[i], after[i].data[Len(after[i].data)])
  /\ after[i].name = before[i].name
  /\ after[i].columns = before[i].columns
  /\ \A j \in 1..Len(before) : j # i => after[j] = before[j]

\* C11, as claimed: every Add Row action that reports 'Row added' has appended
\* exactly one row at the end of exactly one table, the new row having every key
\* of that table's first row set to the empty string; all existing rows, all
\* other tables and all column definitions are unchanged.
C11_RowAddedAppendsOne ==
  [][\A now \in Timestamps :
       (AddRow(now) /\ toast' = Toast("success", "Row added"))
         => \E i \in 1..Len(tables) : AppendedOneRow(tables, tables', i)]_vars
====
